---- MODULE Spec2Model ----
(***************************************************************************)
(* The web reader as state machines, one per module of the source, over one*)
(* initial state:                                                          *)
(*                                                                         *)
(*   Spec        the task scheduler of backend/src/tasks.py: the registry, *)
(*               the running set, Task.cancel, delete_task and execute_task;*)
(*   ListSpec    list_tasks of the same module over a registry of tasks;   *)
(*   BrowserSpec the browser of fastmcp/src/browser.py: get_current_page,  *)
(*               cleanup_task_context and cleanup_browser as overlapping   *)
(*               calls (BrowserSeqSpec: one call at a time);               *)
(*   RateSpec    enforce_rate_limit of fastmcp/src/rate_limiting.py as     *)
(*               overlapping calls (RateSeqSpec: one call at a time);      *)
(*   AgentSpec   the browser tools called by the orchestrator's wrappers   *)
(*               (langchain/src/tools.py, fastmcp/src/tools.py);           *)
(*   StreamSpec  the scheduler with stream_task_events of                  *)
(*               backend/server.py (StreamLiveSpec: with fair polling).    *)
(*                                                                         *)
(* Coroutines interleave at the suspension points of the asyncio event     *)
(* loop; everything between two suspension points is one action.  The lock *)
(* _task_lock is never held across a real suspension (create_task holds it *)
(* over no await, delete_task only over Task.cancel, which has no await    *)
(* that suspends), so acquiring it never suspends and it needs no variable.*)
(***************************************************************************)
EXTENDS Integers, FiniteSets, Sequences, TLC

\* ------------------------------------------------------------------ bounds
\* Number of Task objects create_task makes.
NumTasks == 2
\* config.py:28, int(os.getenv("MAX_CONCURRENT_TASKS", "3")): the limit the
\* deployment sets, here below NumTasks so that tasks queue.
MAX_CONCURRENT_TASKS == 1
\* config.py:29, int(os.getenv("TASK_TIMEOUT", "300")): the default deadline
\* the deployment sets, in units of loop time.
TASK_TIMEOUT == 2

TaskIds == 1..NumTasks
\* The time budgets tasks are created with: 0 for an unset (falsy) budget and
\* one budget below TASK_TIMEOUT.
Budgets == {0, 1}
\* Optional[...] = None
None == "None"
\* datetime.now(): of a timestamp the model keeps only that it is set.
datetime_now == "datetime"
\* Task.error = None; an error is the tuple of the parts of its message.
NoError == <<>>
\* The reasons a caller passes to Task.cancel: <<>> is reason=None.
Reasons == {<<>>}
\* str(e) of the exceptions an executor raises.
ExceptionMessages == {<<"boom">>}

\* models.py TaskStatus
TaskStatus == {"created", "queued", "running", "completed", "failed", "cancelled"}
Terminal == {"completed", "failed", "cancelled"}

VARIABLES
    tasks,          \* _tasks: the ids registered
    running,        \* _running_tasks
    nextId,         \* number of Task objects made so far (ids 1..nextId)
    time_budget,    \* Task.time_budget
    status,         \* Task.status
    started_at,     \* Task.started_at
    completed_at,   \* Task.completed_at
    error,          \* Task.error
    cancel_event,   \* Task._cancel_event.is_set()
    pc,             \* where the execute_task call of the task stands
    elapsed         \* loop time since asyncio.timeout was armed for the task

taskVars == <<tasks, running, nextId, time_budget, status, started_at,
              completed_at, error, cancel_event, pc, elapsed>>

\* The listing of the registry (list_tasks), which orders by created_at: the
\* scheduler above keeps of the registry only the ids, so the listing has the
\* registry with its creation times in variables of its own.
VARIABLES
    registry,       \* _tasks.values() in insertion order, each with created_at
    made,           \* number of Task objects registered so far
    listed          \* what the last list_tasks call returned

listVars == <<registry, made, listed>>

\* Browser management of fastmcp/src/browser.py.  Engines, contexts and pages
\* are objects of the browser library: each is numbered by its place in the
\* sequence of the objects of its kind made so far.
VARIABLES
    _playwright,    \* _playwright
    _browser,       \* _browser: None or an engine
    _contexts,      \* _contexts: task id -> context, None for a missing key
    _pages,         \* _pages: task id -> page, None for a missing key
    engines,        \* the engines launched or connected so far
    contexts,       \* the contexts made so far
    pages,          \* the pages made so far
    call,           \* the coroutines in flight, each with its locals
    shutdown        \* the server's lifespan has called cleanup_browser

browserVars == <<_playwright, _browser, _contexts, _pages, engines, contexts,
                 pages, call, shutdown>>

\* Rate limiting of fastmcp/src/rate_limiting.py.
VARIABLES
    clock,          \* time.time()
    _rate_limits,   \* _rate_limits: domain -> timestamps, [] for a missing key
    limited,        \* the enforce_rate_limit calls in flight
    recent          \* per domain, the requests recorded less than a window ago

rateVars == <<clock, _rate_limits, limited, recent>>

\* Tool calls of the orchestrator (langchain/src/tools.py) served by the tool
\* server (fastmcp/src/tools.py).
VARIABLES
    behalf,         \* per coroutine of the tool server, the task it serves
    handed          \* per task of the orchestrator, the page its last call used

agentVars == <<behalf, handed>>

\* The event stream of a task (stream_task_events of backend/server.py).
VARIABLES
    stream          \* the WebSocket handler: where it stands and how it ended

streamVars == <<stream>>

vars == <<taskVars, listVars, browserVars, rateVars, agentVars, streamVars>>

\* Positions of an execute_task call: not called yet, in asyncio.sleep of the
\* queue loop, awaiting the executor, and returned by one of its exit paths.
Returned == {"ret_queue_cancel", "ret_normal", "ret_timeout", "ret_cancelled", "ret_error"}
Positions == {"idle", "sleep", "exec"} \cup Returned

\* ---------------------------------------------------------------- Task
\* Task.is_cancelled
is_cancelled(t) == cancel_event[t]

\* Task.cancel: the error stored, reason or "Cancelled by user"
CancelError(reason) == IF reason = <<>> THEN <<"Cancelled by user">> ELSE reason

\* Task.cancel: the status it stores
CancelStatus(t) == "cancelled"

\* Task.cancel, as functions of the whole field maps.  _executor_task is
\* assigned nowhere in the repository, so the branch that cancels it is dead.
cancel_status(t) == [status EXCEPT ![t] = CancelStatus(t)]
cancel_completed_at(t) == [completed_at EXCEPT ![t] = datetime_now]
cancel_error(t, reason) == [error EXCEPT ![t] = CancelError(reason)]
cancel_cancel_event(t) == [cancel_event EXCEPT ![t] = TRUE]

\* A caller cancels a registered task (server.py looks it up with get_task).
Cancel(t, reason) ==
    /\ t \in tasks
    /\ status' = cancel_status(t)
    /\ completed_at' = cancel_completed_at(t)
    /\ error' = cancel_error(t, reason)
    /\ cancel_event' = cancel_cancel_event(t)
    /\ UNCHANGED <<tasks, running, nextId, time_budget, started_at,
                   pc, elapsed>>

\* ------------------------------------------------------- task management
create_task(b) ==
    /\ nextId < NumTasks
    /\ LET id == nextId + 1 IN
        /\ nextId' = id
        /\ tasks' = tasks \cup {id}
        /\ time_budget' = [time_budget EXCEPT ![id] = b]
    /\ UNCHANGED <<running, status, started_at, completed_at, error,
                   cancel_event, pc, elapsed>>

\* delete_task: the statuses it cancels before removing
DeleteCancels(t) == status[t] \in {"queued", "running"}

delete_task(t) ==
    /\ t \in tasks
    /\ IF DeleteCancels(t)
         THEN /\ status' = cancel_status(t)
              /\ completed_at' = cancel_completed_at(t)
              /\ error' = cancel_error(t, <<"Task deleted">>)
              /\ cancel_event' = cancel_cancel_event(t)
         ELSE UNCHANGED <<status, completed_at, error, cancel_event>>
    /\ tasks' = tasks \ {t}
    /\ running' = running \ {t}
    /\ UNCHANGED <<nextId, time_budget, started_at, pc, elapsed>>

can_start_task == Cardinality(running) < MAX_CONCURRENT_TASKS

\* ---------------------------------------------------------- execute_task
\* Lines 250-261: add to the running set, mark running, stamp the start and
\* enter the executor under asyncio.timeout.
StartExecution(t) ==
    /\ running' = running \cup {t}
    /\ status' = [status EXCEPT ![t] = "running"]
    /\ started_at' = [started_at EXCEPT ![t] = datetime_now]
    /\ elapsed' = [elapsed EXCEPT ![t] = 0]
    /\ pc' = [pc EXCEPT ![t] = "exec"]
    /\ UNCHANGED <<tasks, nextId, time_budget, completed_at, error,
                   cancel_event>>

\* execute_task is called for a task made by create_task (lines 241-246): at
\* capacity it marks the task queued and sleeps, otherwise it starts at once.
ExecuteTaskCall(t) ==
    /\ t <= nextId
    /\ pc[t] = "idle"
    /\ IF ~can_start_task
         THEN /\ status' = [status EXCEPT ![t] = "queued"]
              /\ pc' = [pc EXCEPT ![t] = "sleep"]
              /\ UNCHANGED <<tasks, running, nextId, time_budget,
                             started_at, completed_at, error, cancel_event,
                             elapsed>>
         ELSE StartExecution(t)

\* QueuePoll without the is_cancelled check after the sleep.
QueuePollNoCancelCheck(t) ==
    /\ pc[t] = "sleep"
    /\ IF can_start_task THEN StartExecution(t) ELSE UNCHANGED vars

\* The queue loop wakes from asyncio.sleep(1) (lines 245-248): return when
\* cancelled, start when a slot is free, sleep again otherwise.
QueuePoll(t) ==
    /\ pc[t] = "sleep"
    /\ IF is_cancelled(t)
         THEN /\ pc' = [pc EXCEPT ![t] = "ret_queue_cancel"]
              /\ UNCHANGED <<tasks, running, nextId, time_budget, status,
                             started_at, completed_at, error,
                             cancel_event, elapsed>>
         ELSE IF can_start_task
                THEN StartExecution(t)
                ELSE UNCHANGED vars

\* asyncio.timeout(task.time_budget or TASK_TIMEOUT)
Deadline(t) == IF time_budget[t] # 0 THEN time_budget[t] ELSE TASK_TIMEOUT

\* f"Task exceeded time budget ({task.time_budget}s)"
BudgetError(t) == <<"Task exceeded time budget", time_budget[t]>>

\* FinallyRunning without the discard.
FinallyRunningKept(t) == running

\* finally: the running set after the discard
FinallyRunning(t) == running \ {t}

\* finally (lines 281-284), then the return; the deadline is disarmed on
\* leaving asyncio.timeout
Finally(t, exit) ==
    /\ completed_at' = [completed_at EXCEPT ![t] = datetime_now]
    /\ running' = FinallyRunning(t)
    /\ pc' = [pc EXCEPT ![t] = exit]
    /\ elapsed' = [elapsed EXCEPT ![t] = 0]
    /\ UNCHANGED <<tasks, nextId, time_budget, started_at, cancel_event>>

\* The executor returns before the deadline (lines 263-265).
ExecutorReturns(t) ==
    /\ pc[t] = "exec"
    /\ elapsed[t] < Deadline(t)
    /\ status' = IF ~is_cancelled(t) THEN [status EXCEPT ![t] = "completed"]
                                     ELSE status
    /\ UNCHANGED error
    /\ Finally(t, "ret_normal")

\* The deadline passes with the executor still in flight (lines 267-270).
DeadlineExceeded(t) ==
    /\ pc[t] = "exec"
    /\ elapsed[t] = Deadline(t)
    /\ status' = [status EXCEPT ![t] = "failed"]
    /\ error' = [error EXCEPT ![t] = BudgetError(t)]
    /\ Finally(t, "ret_timeout")

\* asyncio.CancelledError comes out of the await (lines 272-274): the
\* executor raised it, or the asyncio task running execute_task was cancelled.
ExecutorCancelled(t) ==
    /\ pc[t] = "exec"
    /\ elapsed[t] < Deadline(t)
    /\ UNCHANGED <<status, error>>
    /\ Finally(t, "ret_cancelled")

\* ExceptionStatus with the assignment left out.
ExceptionStatusKept(t) == status[t]

\* except Exception: the status stored
ExceptionStatus(t) == "failed"

\* The executor raises another exception before the deadline (lines 276-279).
ExecutorRaises(t, msg) ==
    /\ pc[t] = "exec"
    /\ elapsed[t] < Deadline(t)
    /\ status' = [status EXCEPT ![t] = ExceptionStatus(t)]
    /\ error' = [error EXCEPT ![t] = msg]
    /\ Finally(t, "ret_error")

\* ------------------------------------------------------------------ time
\* Loop time passes for every executor in flight; a deadline that is reached
\* fires before more time passes.
Elapse ==
    /\ \E t \in TaskIds : pc[t] = "exec"
    /\ \A t \in TaskIds : pc[t] = "exec" => elapsed[t] < Deadline(t)
    /\ elapsed' = [t \in TaskIds |->
                     IF pc[t] = "exec" THEN elapsed[t] + 1 ELSE elapsed[t]]
    /\ UNCHANGED <<tasks, running, nextId, time_budget, status,
                   started_at, completed_at, error, cancel_event, pc>>

\* ------------------------------------------------------------ list_tasks
\* Largest number of tasks registered for a listing.
MaxRegistry == 3
\* Task.created_at = datetime.now(): wall-clock readings, which may repeat.
Stamps == 1..MaxRegistry - 1
\* offset (ge=0) and limit of a list_tasks call, up to past the registry's end.
Offsets == 0..MaxRegistry + 1
Limits == 0..MaxRegistry + 1
\* No list_tasks call has returned since the registry last changed; listed
\* is what the last call returned, until the next operation.
NoListing == [offset |-> 0, limit |-> 0, tasks |-> <<>>, total |-> -1]

Min(a, b) == IF a < b THEN a ELSE b
Max(a, b) == IF a > b THEN a ELSE b

\* _tasks[task_id] = task, with created_at read from the clock.
register(c) ==
    /\ made < MaxRegistry
    /\ made' = made + 1
    /\ registry' = Append(registry, [id |-> made + 1, created_at |-> c])
    /\ listed' = NoListing

\* del _tasks[task_id]
unregister(i) ==
    /\ i \in 1..Len(registry)
    /\ registry' = SubSeq(registry, 1, i - 1) \o SubSeq(registry, i + 1, Len(registry))
    /\ listed' = NoListing
    /\ UNCHANGED made

\* The order with reverse=False.
OldestFirst(a, b) == a.created_at < b.created_at

\* key=lambda t: t.created_at, reverse=True: a sorts before b.
MostRecentFirst(a, b) == a.created_at > b.created_at

\* sorted() is stable, also with reverse=True: of two tasks with equal keys
\* the one that comes first in the input comes first in the output.
RECURSIVE Insert(_, _)
Insert(x, s) ==
    IF s = <<>> THEN <<x>>
    ELSE IF MostRecentFirst(x, Head(s)) THEN <<x>> \o s
    ELSE <<Head(s)>> \o Insert(x, Tail(s))

RECURSIVE sorted(_)
sorted(s) ==
    IF s = <<>> THEN <<>>
    ELSE Insert(s[Len(s)], sorted(SubSeq(s, 1, Len(s) - 1)))

\* all_tasks[offset : offset + limit], both ends clamped to the length.
Slice(s, offset, limit) ==
    SubSeq(s, Min(offset, Len(s)) + 1, Min(offset + limit, Len(s)))

list_tasks(offset, limit) ==
    LET all_tasks == sorted(registry)
        total == Len(all_tasks)
    IN /\ listed' = [offset |-> offset, limit |-> limit,
                     tasks |-> Slice(all_tasks, offset, limit), total |-> total]
       /\ UNCHANGED <<registry, made>>

ListInit ==
    /\ registry = <<>>
    /\ made = 0
    /\ listed = NoListing

\* --------------------------------------------------------------- browser
\* Contexts the engines hold at a time.  Engines, contexts and pages are
\* objects of the browser library, each numbered by its place in the sequence
\* of the objects of its kind; an object that is closed and that nothing
\* refers to any more is freed, and leaves the sequence.
MaxContexts == 2
\* config.py:19, os.getenv("PLAYWRIGHT_HOST", "ws-playwright")
PLAYWRIGHT_HOST == "ws-playwright"
\* The task ids tool calls pass.
BrowserTasks == {"A", "default"}
\* The coroutines of the tool server that overlap at their awaits.
Calls == {"c1", "c2"}
\* The awaits at which a call is suspended, and how it ended.
Awaits == {"playwright_start", "connect", "new_context", "add_init_script",
           "new_page", "page_close", "context_close", "all_pages_close",
           "all_contexts_close", "browser_close", "playwright_stop"}
Ended == {"returned", "raised"}
Operations == {"get_current_page", "cleanup_task_context", "cleanup_browser"}

\* No object: None where the code holds an engine, a context or a page.
Null == 0

\* A coroutine slot with no call in it.
NoCall == [op |-> None, task_id |-> None, pc |-> "idle", browser |-> Null,
           context |-> Null, page |-> Null, todo |-> {}, result |-> Null,
           error |-> None]

\* A new call takes the first slot with no call in flight.
Free(c) == /\ call[c].pc = "idle"
           /\ c = "c2" => call["c1"].pc # "idle"

Begin(c, op, id) == [NoCall EXCEPT !.op = op, !.task_id = id]

\* return value: the locals of the call are gone
Return(k, value) ==
    [NoCall EXCEPT !.op = k.op, !.task_id = k.task_id, !.pc = "returned",
                   !.result = value]
\* An exception leaves the call; error names the operation that raised.
Raise(k, what) ==
    [NoCall EXCEPT !.op = k.op, !.task_id = k.task_id, !.pc = "raised",
                   !.error = what]

\* The call in slot c goes on as k.
Settle(c, k) == call' = [call EXCEPT ![c] = k]

\* The caller of a call that has ended takes what it returned or raised, and
\* the slot is free again.  This comes before any other step, so that a call
\* that has ended stands in the state in which it ended.
Collect(c) ==
    /\ call[c].pc \in Ended
    /\ call' = [call EXCEPT ![c] = NoCall]
    /\ UNCHANGED <<_playwright, _browser, _contexts, _pages, engines, contexts,
                   pages, shutdown>>

\* No call has ended and waits to be collected.
NoneEnded == \A c \in Calls : call[c].pc \notin Ended

\* A sequence without its i-th element, and a reference into it after that.
DropAt(s, i) == SubSeq(s, 1, i - 1) \o SubSeq(s, i + 1, Len(s))
Shift(i, r) == IF r > i THEN r - 1 ELSE r

\* A closed page that neither _pages nor a call refers to.
DeadPage(p) ==
    /\ p \in 1..Len(pages)
    /\ ~pages[p].open
    /\ \A id \in BrowserTasks : _pages[id] # p
    /\ \A c \in Calls : call[c].page # p

\* A closed context that neither _contexts, a call nor a page refers to.
DeadContext(x) ==
    /\ x \in 1..Len(contexts)
    /\ ~contexts[x].open
    /\ \A id \in BrowserTasks : _contexts[id] # x
    /\ \A c \in Calls : call[c].context # x
    /\ \A p \in 1..Len(pages) : pages[p].context # x

\* A dead page is freed.
FreePage(p) ==
    /\ NoneEnded
    /\ DeadPage(p)
    /\ pages' = DropAt(pages, p)
    /\ _pages' = [id \in BrowserTasks |-> Shift(p, _pages[id])]
    /\ call' = [c \in Calls |-> [call[c] EXCEPT !.page = Shift(p, @)]]
    /\ UNCHANGED <<_playwright, _browser, _contexts, engines, contexts, shutdown>>

\* A dead context is freed.
FreeContext(x) ==
    /\ NoneEnded
    /\ DeadContext(x)
    /\ contexts' = DropAt(contexts, x)
    /\ _contexts' = [id \in BrowserTasks |-> Shift(x, _contexts[id])]
    /\ call' = [c \in Calls |-> [call[c] EXCEPT !.context = Shift(x, @)]]
    /\ pages' = [p \in 1..Len(pages) |-> [pages[p] EXCEPT !.context = Shift(x, @)]]
    /\ UNCHANGED <<_playwright, _browser, _pages, engines, shutdown>>

\* Nothing waits to be freed.
NoGarbage ==
    /\ \A p \in 1..Len(pages) : ~DeadPage(p)
    /\ \A x \in 1..Len(contexts) : ~DeadContext(x)

\* What each browser action leaves alone.
browserObjects == <<engines, contexts, pages>>

\* The key under which a call with this task id finds and stores its entries,
\* were every call to use one key.
SharedKey(task_id) == "A"

\* _contexts[task_id], _pages[task_id]
Key(task_id) == task_id

\* get_browser returns b into create_context (browser = await get_browser()),
\* which goes on to await browser.new_context().
AfterGetBrowser(k, b) == [k EXCEPT !.browser = b, !.pc = "new_context"]

\* get_browser up to its first await.
EnterGetBrowser(k) ==
    IF _browser = Null THEN [k EXCEPT !.pc = "playwright_start"]
    ELSE AfterGetBrowser(k, _browser)

\* Nothing but get_current_page calls create_context, and nothing but
\* create_context calls get_browser: a call of get_current_page that finds no
\* context or no page for its task id runs through both.
get_current_page(c, id) ==
    /\ Free(c) /\ ~shutdown
    /\ Settle(c, IF _contexts[Key(id)] = Null \/ _pages[Key(id)] = Null
                  THEN EnterGetBrowser(Begin(c, "get_current_page", id))
                  ELSE Return(Begin(c, "get_current_page", id), _pages[Key(id)]))
    /\ UNCHANGED <<_playwright, _browser, _contexts, _pages, browserObjects, shutdown>>

\* _playwright = await async_playwright().start()
PlaywrightStarted(c) ==
    /\ call[c].pc = "playwright_start"
    /\ _playwright' = "playwright"
    /\ Settle(c, [call[c] EXCEPT !.pc = "connect"])
    /\ UNCHANGED <<_browser, _contexts, _pages, browserObjects, shutdown>>

PlaywrightStartFails(c) ==
    /\ call[c].pc = "playwright_start"
    /\ Settle(c, Raise(call[c], "playwright_start"))
    /\ UNCHANGED <<_playwright, _browser, _contexts, _pages, browserObjects, shutdown>>

\* chromium.launch for the local-development host, chromium.connect otherwise.
Established == IF PLAYWRIGHT_HOST = "localhost" THEN "launch" ELSE "connect"

\* _browser = await _maybe_await(...); return _browser
Connected(c) ==
    /\ call[c].pc = "connect"
    /\ engines' = Append(engines, [how |-> Established, open |-> TRUE])
    /\ _browser' = Len(engines) + 1
    /\ Settle(c, AfterGetBrowser(call[c], _browser'))
    /\ UNCHANGED <<_playwright, _contexts, _pages, contexts, pages, shutdown>>

\* A failed connect, were get_browser to swallow it and return _browser.
ConnectFailureSwallowed(k) == AfterGetBrowser(k, _browser)

\* The await raises: nothing catches it, get_browser and its callers raise.
ConnectFailure(k) == Raise(k, "connect")

ConnectFails(c) ==
    /\ call[c].pc = "connect"
    /\ Settle(c, ConnectFailure(call[c]))
    /\ UNCHANGED <<_playwright, _browser, _contexts, _pages, browserObjects, shutdown>>

\* context = await browser.new_context(...)
NewContext(c) ==
    /\ call[c].pc = "new_context"
    /\ Len(contexts) < MaxContexts
    /\ engines[call[c].browser].open
    /\ contexts' = Append(contexts, [task_id |-> call[c].task_id,
                                     browser |-> call[c].browser, open |-> TRUE])
    /\ Settle(c, [call[c] EXCEPT !.context = Len(contexts) + 1,
                                 !.browser = Null,
                                 !.pc = "add_init_script"])
    /\ UNCHANGED <<_playwright, _browser, _contexts, _pages, engines, pages, shutdown>>

NewContextFails(c) ==
    /\ call[c].pc = "new_context"
    /\ Settle(c, Raise(call[c], "new_context"))
    /\ UNCHANGED <<_playwright, _browser, _contexts, _pages, browserObjects, shutdown>>

\* await context.add_init_script(...); _contexts[task_id] = context; then
\* create_context returns, into get_current_page's await context.new_page().
AddInitScript(c) ==
    /\ call[c].pc = "add_init_script"
    /\ contexts[call[c].context].open
    /\ _contexts' = [_contexts EXCEPT ![Key(call[c].task_id)] = call[c].context]
    /\ Settle(c, [call[c] EXCEPT !.pc = "new_page"])
    /\ UNCHANGED <<_playwright, _browser, _pages, browserObjects, shutdown>>

AddInitScriptFails(c) ==
    /\ call[c].pc = "add_init_script"
    /\ Settle(c, Raise(call[c], "add_init_script"))
    /\ UNCHANGED <<_playwright, _browser, _contexts, _pages, browserObjects, shutdown>>

\* page = await context.new_page(); _pages[task_id] = page; return _pages[task_id]
NewPage(c) ==
    /\ call[c].pc = "new_page"
    /\ contexts[call[c].context].open
    /\ pages' = Append(pages, [task_id |-> call[c].task_id,
                               context |-> call[c].context, open |-> TRUE])
    /\ _pages' = [_pages EXCEPT ![Key(call[c].task_id)] = Len(pages) + 1]
    /\ Settle(c, Return(call[c], _pages'[Key(call[c].task_id)]))
    /\ UNCHANGED <<_playwright, _browser, _contexts, engines, contexts, shutdown>>

NewPageFails(c) ==
    /\ call[c].pc = "new_page"
    /\ Settle(c, Raise(call[c], "new_page"))
    /\ UNCHANGED <<_playwright, _browser, _contexts, _pages, browserObjects, shutdown>>

\* ------------------------------------------------- cleanup_task_context
NoEntries == [id \in BrowserTasks |-> Null]

\* close() of a page, and of a context with the pages it holds.
ClosePage(ok, p) == IF ok THEN [pages EXCEPT ![p].open = FALSE] ELSE pages
CloseContext(ok, x) == IF ok THEN [contexts EXCEPT ![x].open = FALSE] ELSE contexts
ClosePagesOf(ok, x) ==
    IF ok THEN [p \in 1..Len(pages) |->
                  IF pages[p].context = x THEN [pages[p] EXCEPT !.open = FALSE]
                  ELSE pages[p]]
    ELSE pages

\* The second half of cleanup_task_context: if task_id in _contexts.
AfterPageRemoved(k) ==
    IF _contexts[k.task_id] # Null
    THEN [k EXCEPT !.context = _contexts[k.task_id], !.page = Null,
                   !.pc = "context_close"]
    ELSE Return(k, Null)

cleanup_task_context(c, id) ==
    /\ Free(c) /\ ~shutdown
    /\ Settle(c, IF _pages[id] # Null
                  THEN [Begin(c, "cleanup_task_context", id)
                          EXCEPT !.page = _pages[id], !.pc = "page_close"]
                  ELSE AfterPageRemoved(Begin(c, "cleanup_task_context", id)))
    /\ UNCHANGED <<_playwright, _browser, _contexts, _pages, browserObjects, shutdown>>

\* The map after a close, were the del to follow the close inside the try.
EntryKeptOnError(map, id, ok) == IF ok THEN [map EXCEPT ![id] = Null] ELSE map

\* The map after a close, were the cleanup to clear it.
EveryEntryRemoved(map, id, ok) == NoEntries

\* finally: del map[task_id], whether or not close() raised.
EntryRemoved(map, id, ok) == [map EXCEPT ![id] = Null]

\* await _pages[task_id].close() is over: except Exception swallows a
\* failure, and the del in the finally raises KeyError if the key is gone.
PageClosed(c, ok) ==
    /\ call[c].pc = "page_close"
    /\ pages' = ClosePage(ok, call[c].page)
    /\ IF _pages[call[c].task_id] = Null
       THEN /\ Settle(c, Raise(call[c], "KeyError"))
            /\ UNCHANGED _pages
       ELSE /\ _pages' = EntryRemoved(_pages, call[c].task_id, ok)
            /\ Settle(c, AfterPageRemoved(call[c]))
    /\ UNCHANGED <<_playwright, _browser, _contexts, engines, contexts, shutdown>>

\* await _contexts[task_id].close() is over.
ContextClosed(c, ok) ==
    /\ call[c].pc = "context_close"
    /\ contexts' = CloseContext(ok, call[c].context)
    /\ pages' = ClosePagesOf(ok, call[c].context)
    /\ IF _contexts[call[c].task_id] = Null
       THEN /\ Settle(c, Raise(call[c], "KeyError"))
            /\ UNCHANGED _contexts
       ELSE /\ _contexts' = EntryRemoved(_contexts, call[c].task_id, ok)
            /\ Settle(c, Return(call[c], Null))
    /\ UNCHANGED <<_playwright, _browser, _pages, engines, shutdown>>

\* ------------------------------------------------------- cleanup_browser
\* if _playwright: await _playwright.stop()
PlaywrightPhase(k) ==
    IF _playwright # None THEN [k EXCEPT !.browser = Null, !.pc = "playwright_stop"]
    ELSE Return(k, Null)

\* if _browser: await _browser.close()
EnginePhase(k) ==
    IF _browser # Null
    THEN [k EXCEPT !.browser = _browser, !.context = Null, !.pc = "browser_close"]
    ELSE PlaywrightPhase(k)

\* The loop over list(_contexts.keys()) with the keys k.todo to go: a key
\* whose entry is gone raises KeyError inside the try and is passed over;
\* after the last key _contexts.clear() and on to the engine.
ContextsLoop(c, k) ==
    LET live == {id \in k.todo : _contexts[id] # Null}
    IN IF live = {}
       THEN /\ _contexts' = NoEntries
            /\ Settle(c, EnginePhase([k EXCEPT !.todo = {}]))
       ELSE /\ \E nxt \in live :
                 Settle(c, [k EXCEPT !.context = _contexts[nxt],
                                      !.todo = k.todo \ {nxt},
                                      !.pc = "all_contexts_close"])
            /\ UNCHANGED _contexts

\* The loop over list(_pages.keys()), then _pages.clear() and on to the
\* loop over the contexts.
PagesLoop(c, k) ==
    LET live == {id \in k.todo : _pages[id] # Null}
    IN IF live = {}
       THEN /\ _pages' = NoEntries
            /\ ContextsLoop(c, [k EXCEPT !.page = Null, !.todo =
                                  {id \in BrowserTasks : _contexts[id] # Null}])
       ELSE /\ \E nxt \in live :
                 Settle(c, [k EXCEPT !.page = _pages[nxt],
                                      !.todo = k.todo \ {nxt},
                                      !.pc = "all_pages_close"])
            /\ UNCHANGED <<_pages, _contexts>>

cleanup_browser(c) ==
    /\ Free(c) /\ ~shutdown
    /\ shutdown' = TRUE
    /\ PagesLoop(c, [Begin(c, "cleanup_browser", None) EXCEPT !.todo =
                       {id \in BrowserTasks : _pages[id] # Null}])
    /\ UNCHANGED <<_playwright, _browser, browserObjects>>

AllPagesClosed(c, ok) ==
    /\ call[c].pc = "all_pages_close"
    /\ pages' = ClosePage(ok, call[c].page)
    /\ PagesLoop(c, call[c])
    /\ UNCHANGED <<_playwright, _browser, engines, contexts, shutdown>>

AllContextsClosed(c, ok) ==
    /\ call[c].pc = "all_contexts_close"
    /\ contexts' = CloseContext(ok, call[c].context)
    /\ pages' = ClosePagesOf(ok, call[c].context)
    /\ ContextsLoop(c, call[c])
    /\ UNCHANGED <<_playwright, _browser, _pages, engines, shutdown>>

\* await _browser.close() returns; _browser = Null.  An engine that closes
\* closes its contexts and their pages.
BrowserClosed(c) ==
    /\ call[c].pc = "browser_close"
    /\ engines' = [engines EXCEPT ![call[c].browser].open = FALSE]
    /\ contexts' = [x \in 1..Len(contexts) |->
                      IF contexts[x].browser = call[c].browser
                      THEN [contexts[x] EXCEPT !.open = FALSE] ELSE contexts[x]]
    /\ pages' = [p \in 1..Len(pages) |->
                   IF contexts[pages[p].context].browser = call[c].browser
                   THEN [pages[p] EXCEPT !.open = FALSE] ELSE pages[p]]
    /\ _browser' = Null
    /\ Settle(c, PlaywrightPhase(call[c]))
    /\ UNCHANGED <<_playwright, _contexts, _pages, shutdown>>

\* await _browser.close() raises: no try surrounds it.
BrowserCloseFails(c) ==
    /\ call[c].pc = "browser_close"
    /\ Settle(c, Raise(call[c], "browser_close"))
    /\ UNCHANGED <<_playwright, _browser, _contexts, _pages, browserObjects, shutdown>>

\* await _playwright.stop(); _playwright = Null
PlaywrightStopped(c) ==
    /\ call[c].pc = "playwright_stop"
    /\ _playwright' = None
    /\ Settle(c, Return(call[c], Null))
    /\ UNCHANGED <<_browser, _contexts, _pages, browserObjects, shutdown>>

PlaywrightStopFails(c) ==
    /\ call[c].pc = "playwright_stop"
    /\ Settle(c, Raise(call[c], "playwright_stop"))
    /\ UNCHANGED <<_playwright, _browser, _contexts, _pages, browserObjects, shutdown>>

BrowserInit ==
    /\ _playwright = None
    /\ _browser = Null
    /\ _contexts = NoEntries
    /\ _pages = NoEntries
    /\ engines = <<>>
    /\ contexts = <<>>
    /\ pages = <<>>
    /\ call = [c \in Calls |-> NoCall]
    /\ shutdown = FALSE

\* --------------------------------------------------------- rate limiting
\* config.py:24-28 of fastmcp, read from the environment; the model takes a
\* quota of 2 requests per window of 3 time units and a politeness delay of
\* 1 to 2 units (the defaults are 5 requests per 90 s and 10 to 20 s).
ENABLE_RATE_LIMITING == TRUE
RATE_LIMIT_REQUESTS == 2
RATE_LIMIT_WINDOW == 3
REQUEST_DELAY_MIN == 1
REQUEST_DELAY_MAX == 2
\* The time up to which runs are followed.
MaxClock == 5
\* urlparse(url).netloc of the urls navigated to.
Domains == {"a.test", "b.test"}
\* The navigate_to calls that overlap at the sleeps of enforce_rate_limit.
Limiters == {"n1", "n2"}

NotLimited == [pc |-> "idle", domain |-> None, wake |-> 0]

\* [t for t in _rate_limits[domain] if now - t < RATE_LIMIT_WINDOW]
Unexpired(ts, now) == SelectSeq(ts, LAMBDA t : now - t < RATE_LIMIT_WINDOW)

\* random.uniform(REQUEST_DELAY_MIN, REQUEST_DELAY_MAX)
Delays == REQUEST_DELAY_MIN..REQUEST_DELAY_MAX

\* The histories, were a request recorded under every domain.
RecordEverywhere(limits, d) == [e \in Domains |-> Append(limits[e], clock)]

\* _rate_limits[domain].append(time.time()): the request is recorded.
Record(limits, d) == [limits EXCEPT ![d] = Append(@, clock)]

\* The wait, were the call not to wait for the oldest timestamp.
NoWait(oldest, now) == 0

\* wait_time = RATE_LIMIT_WINDOW - (now - oldest)
WaitTime(oldest, now) == RATE_LIMIT_WINDOW - (now - oldest)

\* enforce_rate_limit(domain) up to its first sleep, or to its end if it
\* does not sleep.
enforce_rate_limit(n, d) ==
    /\ limited[n].pc = "idle"
    /\ IF ~ENABLE_RATE_LIMITING
       THEN UNCHANGED <<_rate_limits, limited, recent>>
       ELSE LET now == clock
                kept == Unexpired(_rate_limits[d], now)
                wait_time == WaitTime(kept[1], now)
                purged == [_rate_limits EXCEPT ![d] = kept]
            IN IF Len(kept) >= RATE_LIMIT_REQUESTS /\ wait_time > 0
               THEN /\ _rate_limits' = purged
                    /\ limited' = [limited EXCEPT ![n] =
                                     [pc |-> "quota_sleep", domain |-> d,
                                      wake |-> now + wait_time]]
                    /\ UNCHANGED recent
               ELSE IF kept # <<>>
               THEN /\ _rate_limits' = purged
                    /\ \E delay \in Delays :
                         limited' = [limited EXCEPT ![n] =
                                       [pc |-> "delay_sleep", domain |-> d,
                                        wake |-> now + delay]]
                    /\ UNCHANGED recent
               ELSE /\ _rate_limits' = Record(purged, d)
                    /\ recent' = Record(recent, d)
                    /\ UNCHANGED limited
    /\ UNCHANGED clock

\* The quota sleep is over: now = time.time(); _rate_limits[domain] = [];
\* the history is empty, so no politeness delay; the request is recorded.
QuotaSleepOver(n) ==
    /\ limited[n].pc = "quota_sleep"
    /\ clock >= limited[n].wake
    /\ _rate_limits' = Record([_rate_limits EXCEPT ![limited[n].domain] = <<>>],
                              limited[n].domain)
    /\ recent' = Record(recent, limited[n].domain)
    /\ limited' = [limited EXCEPT ![n] = NotLimited]
    /\ UNCHANGED clock

\* The politeness delay is over: the request is recorded.
DelayOver(n) ==
    /\ limited[n].pc = "delay_sleep"
    /\ clock >= limited[n].wake
    /\ _rate_limits' = Record(_rate_limits, limited[n].domain)
    /\ recent' = Record(recent, limited[n].domain)
    /\ limited' = [limited EXCEPT ![n] = NotLimited]
    /\ UNCHANGED clock

\* Time passes; a sleep that is over ends before more time passes.
Tick ==
    /\ clock < MaxClock
    /\ \A n \in Limiters : limited[n].pc = "idle" \/ clock < limited[n].wake
    /\ clock' = clock + 1
    /\ recent' = [d \in Domains |-> Unexpired(recent[d], clock + 1)]
    /\ UNCHANGED <<_rate_limits, limited>>

RateInit ==
    /\ clock = 0
    /\ _rate_limits = [d \in Domains |-> <<>>]
    /\ limited = [n \in Limiters |-> NotLimited]
    /\ recent = [d \in Domains |-> <<>>]

\* ------------------------------------------------------------ tool calls
\* The tasks the orchestrator runs at a time (ExecuteTaskRequest.task_id).
AgentTasks == {"t1", "t2"}

\* The browser tools the agent calls through the wrappers.
Tools == {"navigate_to", "get_page_content", "take_screenshot"}

\* The arguments the wrapper of a tool sends with mcp_client.call_tool for a
\* task: the wrappers are given the MCP client and the tool's own inputs,
\* never the task.
WrapperArguments(tool, task) ==
    IF tool = "navigate_to" THEN [url |-> "url", wait_until |-> "load"]
    ELSE IF tool = "take_screenshot" THEN [full_page |-> FALSE]
    ELSE <<>>

\* The task_id parameter of a tool of the tool server: task_id: str = "default".
TaskIdParameter(arguments) ==
    IF "task_id" \in DOMAIN arguments THEN arguments.task_id ELSE "default"

\* The tool server runs a tool that the orchestrator called for a task:
\* page = await get_current_page(task_id=task_id).
ToolCall(c, task, tool) ==
    /\ get_current_page(c, TaskIdParameter(WrapperArguments(tool, task)))
    /\ behalf' = [behalf EXCEPT ![c] = task]
    /\ UNCHANGED handed

\* get_current_page has ended: the tool goes on with the page it returned,
\* or reports the error.
ToolResult(c) ==
    /\ behalf[c] # None
    /\ Collect(c)
    /\ handed' = IF call[c].pc = "returned"
                 THEN [handed EXCEPT ![behalf[c]] = call[c].result]
                 ELSE handed
    /\ behalf' = [behalf EXCEPT ![c] = None]

AgentInit ==
    /\ behalf = [c \in Calls |-> None]
    /\ handed = [t \in AgentTasks |-> Null]

\* ---------------------------------------------------------- event stream
\* Where the handler stands: no connection yet, in the send of the initial
\* status, connecting to the orchestrator, relaying its events, before a
\* get_task of the fallback (in the send of the warning or in the sleep),
\* in the send of the polled status, and ended.
StreamPositions == {"closed", "initial_send", "connect", "relay", "poll_wait",
                    "poll_send", "done"}
\* The awaits of the fallback loop.
Polling == {"poll_wait", "poll_send"}
\* The awaits that are a send to the client.
ClientSends == {"initial_send", "relay", "poll_send"}
\* How the handler ended.
Exits == {"not_found", "already_terminal", "final", "stream_end", "gone",
          "disconnected"}
\* event.get("type") of the orchestrator's messages.
EventTypes == {"agent:thinking", "agent:complete", "agent:error"}

NoStream == [pc |-> "closed", task_id |-> Null, exit |-> None, event |-> None]

\* The handler ends.
StreamEnd(exit, event) == [stream EXCEPT !.pc = "done", !.exit = exit, !.event = event]

\* The final event, were it a CompleteEvent whatever the status.
AlwaysComplete(s) == "complete"

\* ErrorEvent for a failed task, CompleteEvent for a completed or cancelled one.
FinalEvent(s) == IF s = "failed" THEN "error" ELSE "complete"

\* if task.status.value in ("completed", "failed", "cancelled"): send the
\* final event and stop; the handler goes on at pc otherwise.
FinalOrGoOn(pc_, exit) ==
    IF status[stream.task_id] \in Terminal
    THEN StreamEnd(exit, FinalEvent(status[stream.task_id]))
    ELSE [stream EXCEPT !.pc = pc_]

\* A client connects for a task id: accept, task = await get_task(task_id),
\* an error event and close if there is no such task.
StreamOpen(id) ==
    /\ stream.pc = "closed"
    /\ stream' = IF id \in tasks
                 THEN [stream EXCEPT !.pc = "initial_send", !.task_id = id]
                 ELSE [StreamEnd("not_found", "error") EXCEPT !.task_id = id]
    /\ UNCHANGED taskVars

\* The initial status is sent; a task that is terminal by now gets its final
\* event, otherwise the handler connects to the orchestrator.
InitialSent ==
    /\ stream.pc = "initial_send"
    /\ stream' = FinalOrGoOn("connect", "already_terminal")
    /\ UNCHANGED taskVars

\* async with websockets.connect(...): connected, the task details are sent.
OrchestratorConnected ==
    /\ stream.pc = "connect"
    /\ stream' = [stream EXCEPT !.pc = "relay"]
    /\ UNCHANGED taskVars

\* The connection cannot be made, or breaks while relaying: except Exception,
\* the warning is sent and the handler falls back to polling.
OrchestratorFails ==
    /\ stream.pc \in {"connect", "relay"}
    /\ stream' = [stream EXCEPT !.pc = "poll_wait"]
    /\ UNCHANGED taskVars

\* The status the relay stores on an event, and the status left alone.
RelayStatus(type, old) ==
    IF type = "agent:complete" THEN "completed"
    ELSE IF type = "agent:error" THEN "failed"
    ELSE old

\* A message of the orchestrator is forwarded to the client, and the task
\* updated on agent:complete and agent:error.
RelayEvent(type) ==
    /\ stream.pc = "relay"
    /\ status' = [status EXCEPT ![stream.task_id] = RelayStatus(type, @)]
    /\ IF type = "agent:thinking"
         THEN UNCHANGED <<completed_at, error>>
         ELSE /\ completed_at' = [completed_at EXCEPT ![stream.task_id] = datetime_now]
              /\ error' = IF type = "agent:error"
                          THEN [error EXCEPT ![stream.task_id] = <<"agent error">>]
                          ELSE error
    /\ UNCHANGED <<tasks, running, nextId, time_budget, started_at,
                   cancel_event, pc, elapsed, stream>>

\* The orchestrator closes its stream: the async for ends, and the handler.
RelayEnds ==
    /\ stream.pc = "relay"
    /\ stream' = StreamEnd("stream_end", None)
    /\ UNCHANGED taskVars

\* The interval is over (or the warning sent): task = await get_task(task_id);
\* if not task: break.
Poll ==
    /\ stream.pc = "poll_wait"
    /\ stream' = IF stream.task_id \in tasks
                 THEN [stream EXCEPT !.pc = "poll_send"]
                 ELSE StreamEnd("gone", None)
    /\ UNCHANGED taskVars

\* The status is sent; on a terminal status the final event and break, else
\* await asyncio.sleep(1).
PollSent ==
    /\ stream.pc = "poll_send"
    /\ stream' = FinalOrGoOn("poll_wait", "final")
    /\ UNCHANGED taskVars

\* The client has gone: the send raises WebSocketDisconnect, which ends the
\* handler (out of the relay by way of the fallback's warning send).
ClientDisconnects ==
    /\ stream.pc \in ClientSends
    /\ stream' = StreamEnd("disconnected", None)
    /\ UNCHANGED taskVars

StreamInit == stream = NoStream

\* ------------------------------------------------------------ the machine
Init ==
    /\ tasks = {}
    /\ running = {}
    /\ nextId = 0
    /\ time_budget = [t \in TaskIds |-> 0]
    /\ status = [t \in TaskIds |-> "created"]
    /\ started_at = [t \in TaskIds |-> None]
    /\ completed_at = [t \in TaskIds |-> None]
    /\ error = [t \in TaskIds |-> NoError]
    /\ cancel_event = [t \in TaskIds |-> FALSE]
    /\ pc = [t \in TaskIds |-> "idle"]
    /\ elapsed = [t \in TaskIds |-> 0]
    /\ ListInit
    /\ BrowserInit
    /\ RateInit
    /\ AgentInit
    /\ StreamInit

\* The scheduler leaves the variables of the other subsystems alone.
otherVars == <<listVars, browserVars, rateVars, agentVars, streamVars>>

Next ==
    \/ (\E b \in Budgets : create_task(b)) /\ UNCHANGED otherVars
    \/ (\E t \in TaskIds, r \in Reasons : Cancel(t, r)) /\ UNCHANGED otherVars
    \/ (\E t \in TaskIds : delete_task(t)) /\ UNCHANGED otherVars
    \/ (\E t \in TaskIds : ExecuteTaskCall(t)) /\ UNCHANGED otherVars
    \/ (\E t \in TaskIds : QueuePoll(t)) /\ UNCHANGED otherVars
    \/ (\E t \in TaskIds : ExecutorReturns(t)) /\ UNCHANGED otherVars
    \/ (\E t \in TaskIds : DeadlineExceeded(t)) /\ UNCHANGED otherVars
    \/ (\E t \in TaskIds : ExecutorCancelled(t)) /\ UNCHANGED otherVars
    \/ (\E t \in TaskIds, m \in ExceptionMessages : ExecutorRaises(t, m)) /\ UNCHANGED otherVars
    \/ Elapse /\ UNCHANGED otherVars

Spec == Init /\ [][Next]_vars

\* The variables a listing leaves alone.
listFrame == <<taskVars, browserVars, rateVars, agentVars, streamVars>>

ListNext ==
    \/ (\E c \in Stamps : register(c)) /\ UNCHANGED listFrame
    \/ (\E i \in 1..MaxRegistry : unregister(i)) /\ UNCHANGED listFrame
    \/ (\E o \in Offsets, l \in Limits : list_tasks(o, l)) /\ UNCHANGED listFrame

ListSpec == Init /\ [][ListNext]_vars

\* The variables the browser module leaves alone.
browserFrame == <<taskVars, listVars, rateVars, agentVars, streamVars>>

\* A step of a call: no ended call waits to be collected, and the other
\* subsystems stay as they are.
Others == NoneEnded /\ NoGarbage /\ UNCHANGED browserFrame

BrowserNext ==
    \/ (\E c \in Calls : Collect(c)) /\ UNCHANGED browserFrame
    \/ (\E p \in 1..MaxContexts : FreePage(p)) /\ UNCHANGED browserFrame
    \/ (\E x \in 1..MaxContexts : FreeContext(x)) /\ UNCHANGED browserFrame
    \/ (\E c \in Calls, id \in BrowserTasks : get_current_page(c, id)) /\ Others
    \/ (\E c \in Calls : PlaywrightStarted(c)) /\ Others
    \/ (\E c \in Calls : PlaywrightStartFails(c)) /\ Others
    \/ (\E c \in Calls : Connected(c)) /\ Others
    \/ (\E c \in Calls : ConnectFails(c)) /\ Others
    \/ (\E c \in Calls : NewContext(c)) /\ Others
    \/ (\E c \in Calls : NewContextFails(c)) /\ Others
    \/ (\E c \in Calls : AddInitScript(c)) /\ Others
    \/ (\E c \in Calls : AddInitScriptFails(c)) /\ Others
    \/ (\E c \in Calls : NewPage(c)) /\ Others
    \/ (\E c \in Calls : NewPageFails(c)) /\ Others
    \/ (\E c \in Calls, id \in BrowserTasks : cleanup_task_context(c, id)) /\ Others
    \/ (\E c \in Calls, ok \in BOOLEAN : PageClosed(c, ok)) /\ Others
    \/ (\E c \in Calls, ok \in BOOLEAN : ContextClosed(c, ok)) /\ Others
    \/ (\E c \in Calls : cleanup_browser(c)) /\ Others
    \/ (\E c \in Calls, ok \in BOOLEAN : AllPagesClosed(c, ok)) /\ Others
    \/ (\E c \in Calls, ok \in BOOLEAN : AllContextsClosed(c, ok)) /\ Others
    \/ (\E c \in Calls : BrowserClosed(c)) /\ Others
    \/ (\E c \in Calls : BrowserCloseFails(c)) /\ Others
    \/ (\E c \in Calls : PlaywrightStopped(c)) /\ Others
    \/ (\E c \in Calls : PlaywrightStopFails(c)) /\ Others

BrowserSpec == Init /\ [][BrowserNext]_vars

\* The tool server with one browser call at a time: a call is made only
\* when no other call is in flight.
OneAtATime == Cardinality({c \in Calls : call[c].pc # "idle"}) <= 1

BrowserSeqNext == BrowserNext /\ OneAtATime'

BrowserSeqSpec == Init /\ [][BrowserSeqNext]_vars

\* The variables the browser steps of a tool call leave alone.
toolFrame == <<taskVars, listVars, rateVars, streamVars>>

\* A browser step inside a tool call.
Inside == NoneEnded /\ UNCHANGED <<toolFrame, agentVars>>

\* Tasks of the orchestrator calling browser tools at the same time.
AgentNext ==
    \/ (\E c \in Calls, task \in AgentTasks, tool \in Tools : ToolCall(c, task, tool))
            /\ NoneEnded /\ UNCHANGED toolFrame
    \/ (\E c \in Calls : ToolResult(c)) /\ UNCHANGED toolFrame
    \/ (\E c \in Calls : PlaywrightStarted(c)) /\ Inside
    \/ (\E c \in Calls : PlaywrightStartFails(c)) /\ Inside
    \/ (\E c \in Calls : Connected(c)) /\ Inside
    \/ (\E c \in Calls : ConnectFails(c)) /\ Inside
    \/ (\E c \in Calls : NewContext(c)) /\ Inside
    \/ (\E c \in Calls : NewContextFails(c)) /\ Inside
    \/ (\E c \in Calls : AddInitScript(c)) /\ Inside
    \/ (\E c \in Calls : AddInitScriptFails(c)) /\ Inside
    \/ (\E c \in Calls : NewPage(c)) /\ Inside
    \/ (\E c \in Calls : NewPageFails(c)) /\ Inside

AgentSpec == Init /\ [][AgentNext]_vars

\* The variables the event stream leaves alone.
streamFrame == <<listVars, browserVars, rateVars, agentVars>>

\* The scheduler with a client streaming the events of a task.
StreamNext ==
    \/ Next
    \/ (\E id \in TaskIds : StreamOpen(id)) /\ UNCHANGED streamFrame
    \/ InitialSent /\ UNCHANGED streamFrame
    \/ OrchestratorConnected /\ UNCHANGED streamFrame
    \/ OrchestratorFails /\ UNCHANGED streamFrame
    \/ (\E type \in EventTypes : RelayEvent(type)) /\ UNCHANGED streamFrame
    \/ RelayEnds /\ UNCHANGED streamFrame
    \/ Poll /\ UNCHANGED streamFrame
    \/ PollSent /\ UNCHANGED streamFrame
    \/ ClientDisconnects /\ UNCHANGED streamFrame

StreamSpec == Init /\ [][StreamNext]_vars

\* The event loop runs a handler that is ready: the sleep of the fallback
\* ends and a send comes back.
StreamLiveSpec == StreamSpec /\ WF_stream(Poll) /\ WF_stream(PollSent)

\* The variables the rate limiter leaves alone.
rateFrame == <<taskVars, listVars, browserVars, agentVars, streamVars>>

RateNext ==
    \/ (\E n \in Limiters, d \in Domains : enforce_rate_limit(n, d)) /\ UNCHANGED rateFrame
    \/ (\E n \in Limiters : QuotaSleepOver(n)) /\ UNCHANGED rateFrame
    \/ (\E n \in Limiters : DelayOver(n)) /\ UNCHANGED rateFrame
    \/ Tick /\ UNCHANGED rateFrame

RateSpec == Init /\ [][RateNext]_vars

\* One navigation at a time: enforce_rate_limit is called only when no other
\* call of it is in flight.
OneLimited == Cardinality({n \in Limiters : limited[n].pc # "idle"}) <= 1

RateSeqNext ==
    \/ (\E n \in Limiters, d \in Domains : enforce_rate_limit(n, d)) /\ OneLimited'
            /\ UNCHANGED rateFrame
    \/ (\E n \in Limiters : QuotaSleepOver(n)) /\ UNCHANGED rateFrame
    \/ (\E n \in Limiters : DelayOver(n)) /\ UNCHANGED rateFrame
    \/ Tick /\ UNCHANGED rateFrame

RateSeqSpec == Init /\ [][RateSeqNext]_vars

BrowserTypeOK ==
    /\ _playwright \in {None, "playwright"}
    /\ _browser \in 0..Len(engines)
    /\ \A id \in BrowserTasks : /\ _contexts[id] \in 0..Len(contexts)
                                /\ _pages[id] \in 0..Len(pages)
    /\ Len(engines) <= Cardinality(Calls)
    /\ Len(contexts) <= MaxContexts
    /\ Len(pages) <= Len(contexts)
    /\ \A c \in Calls : /\ call[c].pc \in {"idle"} \cup Awaits \cup Ended
                        /\ call[c].op \in {None} \cup Operations
                        /\ call[c].todo \subseteq BrowserTasks
    /\ shutdown \in BOOLEAN

TypeOK ==
    /\ tasks \subseteq 1..nextId
    /\ running \subseteq 1..nextId
    /\ nextId \in 0..NumTasks
    /\ status \in [TaskIds -> TaskStatus]
    /\ pc \in [TaskIds -> Positions]
    /\ cancel_event \in [TaskIds -> BOOLEAN]
    /\ \A t \in TaskIds : /\ time_budget[t] \in Budgets
                          /\ elapsed[t] \in 0..Deadline(t)
                          /\ started_at[t] \in {None, datetime_now}
                          /\ completed_at[t] \in {None, datetime_now}

\* ================================================================ claims
\* The Task objects made so far.
Made == 1..nextId
\* The tasks whose status is running.
RunningStatus == {t \in TaskIds : status[t] = "running"}
\* The execute_task calls that returned after entering the executor.
ReturnedFromExecutor == Returned \ {"ret_queue_cancel"}

\* No await of an executor has ended in asyncio.CancelledError.  The claims
\* about the interleavings of execute_task, Task.cancel and delete_task are
\* stated for executors that return, raise an Exception or are cut off by
\* the deadline.
NoCancelledError == \A t \in TaskIds : pc[t] # "ret_cancelled"

\* C1: in every reachable state at most MAX_CONCURRENT_TASKS tasks have
\* status running, under every interleaving of execute_task, Task.cancel and
\* delete_task.
C1_AtMostKRunningStatus ==
    NoCancelledError => Cardinality(RunningStatus) <= MAX_CONCURRENT_TASKS

\* C2: once the status of a task is completed, failed or cancelled, no step
\* changes it.
C2_TerminalAbsorbing ==
    [][\A t \in TaskIds : status[t] \in Terminal => status'[t] = status[t]]_vars

\* C3: completed_at is set if and only if the status is terminal, for every
\* task in every reachable state.
C3_CompletedAtIffTerminal ==
    \A t \in Made : (completed_at[t] # None) <=> (status[t] \in Terminal)

\* C4, as the final result of each call: with executors that return, raise
\* or are cut off by the deadline, an execute_task call that has returned
\* leaves its task in a terminal status, so that no task stays created,
\* queued or running for ever.
C4_ReturnedIsTerminal ==
    \A t \in TaskIds :
        pc[t] \in Returned \ {"ret_cancelled"} => status[t] \in Terminal

\* C5: a task cancelled while execute_task awaits the executor still has
\* status cancelled and the cancel reason as error when execute_task returns.
C5_CancelSurvivesExecutor ==
    [][\A t \in TaskIds :
         (pc[t] = "exec" /\ cancel_event[t] /\ status[t] = "cancelled"
            /\ pc'[t] \in Returned)
         => (status'[t] = "cancelled" /\ error'[t] = error[t])]_vars

\* C6: a task cancelled while it waits in the queue loop is never started:
\* no step gives it status running, a start timestamp or a place in the
\* running set, its executor is never awaited, and the only step its
\* execute_task call takes is the return at the next poll.
C6_QueuedCancelNeverRuns ==
    /\ [][\A t \in TaskIds :
            (pc[t] = "sleep" /\ cancel_event[t])
            => /\ pc'[t] \in {"sleep", "ret_queue_cancel"}
               /\ status'[t] # "running"
               /\ started_at'[t] = None
               /\ t \notin running']_vars
    /\ [](\A t \in TaskIds :
            pc[t] = "ret_queue_cancel"
            => /\ status[t] # "running"
               /\ started_at[t] = None
               /\ t \notin running)

\* C6 witness: a task cancelled in the queue has returned from execute_task
\* while the task that held the slot is still executing.
C6_Witness ==
    \E t, u \in TaskIds :
        /\ pc[t] = "ret_queue_cancel" /\ status[t] = "cancelled"
        /\ t \in tasks /\ started_at[t] = None
        /\ pc[u] = "exec" /\ u \in running

\* C7: after an execute_task call that entered the executor has returned, by
\* whichever exit path, the task is not in the running set and completed_at
\* is set; the running set holds only tasks whose executor is in flight, so
\* a removed id never comes back.
C7_RunningSetReleased ==
    \A t \in TaskIds :
        /\ pc[t] \in ReturnedFromExecutor
           => (t \notin running /\ completed_at[t] # None)
        /\ t \in running => pc[t] = "exec"

\* C7 witness: two calls have returned by different exit paths, the deadline
\* and an executor exception, and the running set is empty.
C7_Witness ==
    \E t, u \in TaskIds :
        /\ pc[t] = "ret_timeout" /\ pc[u] = "ret_error"
        /\ running = {} /\ {t, u} \subseteq tasks

\* C8: when the deadline passes and the task was not cancelled, execute_task
\* returns with status failed and an error naming the budget that was
\* exceeded: the task's time budget, or TASK_TIMEOUT when it is unset.
C8_TimeoutFailsNamingBudget ==
    \A t \in TaskIds :
        (pc[t] = "ret_timeout" /\ ~cancel_event[t])
        => /\ status[t] = "failed"
           /\ error[t] = <<"Task exceeded time budget", Deadline(t)>>

\* C9: when the executor raises an exception and the task was not cancelled,
\* execute_task returns with status failed and the exception's message as
\* error, and the step changes neither the registry nor the status or error
\* of another task, nor where another task's execute_task call stands.
C9_ExecutorErrorIsLocal ==
    [][\A t \in TaskIds :
         (pc[t] = "exec" /\ pc'[t] = "ret_error" /\ ~cancel_event[t])
         => /\ status'[t] = "failed"
            /\ error'[t] \in ExceptionMessages
            /\ tasks' = tasks
            /\ \A u \in TaskIds \ {t} :
                 /\ status'[u] = status[u]
                 /\ error'[u] = error[u]
                 /\ pc'[u] = pc[u]]_vars

\* C9 witness: a task has failed with the exception's message while another
\* task is still waiting in the queue.
C9_Witness ==
    \E t, u \in TaskIds :
        /\ pc[t] = "ret_error" /\ ~cancel_event[t]
        /\ status[t] = "failed" /\ error[t] = <<"boom">>
        /\ pc[u] = "sleep" /\ status[u] = "queued"

\* C10: Task.cancel on a task whose status is already terminal changes
\* neither its status nor its error nor its completed_at.
C10_CancelTerminalNoOp ==
    [][\A t \in TaskIds, r \in Reasons :
         (status[t] \in Terminal /\ Cancel(t, r))
         => /\ status'[t] = status[t]
            /\ error'[t] = error[t]
            /\ completed_at'[t] = completed_at[t]]_vars

\* C11: delete_task on a registered id removes it from the registry (the
\* total count drops by one, get_task finds nothing) and from the running
\* set, and a task that was not in a terminal status (created, queued or
\* running) is cancelled before it is removed.
C11_DeleteCancelsNonTerminal ==
    [][\A t \in TaskIds :
         (t \in tasks /\ delete_task(t))
         => /\ t \notin tasks'
            /\ Cardinality(tasks') = Cardinality(tasks) - 1
            /\ t \notin running'
            /\ status[t] \notin Terminal
               => (status'[t] = "cancelled" /\ cancel_event'[t])]_vars

\* The tasks of the registry created strictly later than x, and those created
\* no earlier than x (x among them).
Newer(x) == {i \in 1..Len(registry) : registry[i].created_at > x.created_at}
NotOlder(x) == {i \in 1..Len(registry) : registry[i].created_at >= x.created_at}

\* C12: list_tasks(O, L) on a registry of M tasks returns exactly
\* min(L, max(0, M - O)) distinct tasks of the registry, the k-th of them
\* standing at position O + k of the registry ordered most recently created
\* first (fewer than O + k tasks are newer, at least O + k are no older),
\* together with total = M, and changes neither the registry nor any task.
C12_ListIsWindowOfNewestFirst ==
    [][\A O \in Offsets, L \in Limits :
         list_tasks(O, L)
         => LET M == Len(registry)
                got == listed'.tasks
            IN /\ registry' = registry
               /\ taskVars' = taskVars
               /\ listed'.total = M
               /\ Len(got) = Min(L, Max(0, M - O))
               /\ \A k \in 1..Len(got) :
                    /\ \E i \in 1..M : registry[i] = got[k]
                    /\ Cardinality(Newer(got[k])) < O + k
                    /\ Cardinality(NotOlder(got[k])) >= O + k
                    /\ \A j \in 1..Len(got) : j # k => got[j].id # got[k].id]_vars

\* A listing from offset 1 that the end of the registry cut short, of a
\* registry whose insertion order is not the listing's order.
C12_Witness ==
    /\ listed.offset = 1
    /\ Len(listed.tasks) = 2
    /\ listed.limit > 2
    /\ listed.total = Len(registry)
    /\ listed.tasks = SubSeq(sorted(registry), 2, 3)
    /\ registry # sorted(registry)

\* The calls of op that have ended by returning.
HasReturned(c, op) == call[c].op = op /\ call[c].pc = "returned"

\* C13: for distinct task ids the contexts and pages stored are different
\* objects, each made for the id it is stored under, and a get_current_page
\* call returns a page made for its own task id, under every interleaving.
C13_HandlesBelongToTheirTask ==
    /\ \A id \in BrowserTasks :
         /\ _contexts[id] # Null => contexts[_contexts[id]].task_id = id
         /\ _pages[id] # Null
            => /\ pages[_pages[id]].task_id = id
               /\ contexts[pages[_pages[id]].context].task_id = id
    /\ \A a, b \in BrowserTasks :
         a # b => /\ _contexts[a] # Null => _contexts[a] # _contexts[b]
                  /\ _pages[a] # Null => _pages[a] # _pages[b]
    /\ \A c \in Calls :
         HasReturned(c, "get_current_page")
         => /\ call[c].result # Null
            /\ pages[call[c].result].task_id = call[c].task_id

\* get_current_page("default") returns while "A" has a context and a page of its
\* own and another call is in flight.
C13_Witness ==
    \E c, d \in Calls :
        /\ HasReturned(c, "get_current_page")
        /\ call[c].task_id = "default"
        /\ _pages["A"] # Null /\ _contexts["A"] # Null
        /\ _pages["default"] = call[c].result
        /\ call[d].pc \in Awaits

\* C14: at most one open context exists per task id: also after a
\* get_current_page call, with no other call in flight and no cleanup
\* before it, has made a context (repeated calls with the same id create
\* one context and one page).
C14_OneOpenContextPerTask ==
    [][\A c \in Calls :
         (NewContext(c) /\ \A d \in Calls \ {c} : call[d].pc = "idle")
         => \A id \in BrowserTasks :
              Cardinality({x \in 1..Len(contexts') :
                             contexts'[x].open /\ contexts'[x].task_id = id}) <= 1]_vars

\* C15: cleanup_task_context(id) never raises; it closes the page before
\* the context (the context is untouched while the page is closed, and its
\* close is awaited only once the page entry is gone); when it returns
\* neither _pages nor _contexts holds id, whether or not the closes failed;
\* and for an id with no entries it returns at once and changes nothing, so
\* that a second call after a first does what none would.
C15_CleanupLeavesNoEntry ==
    [][\A c \in Calls :
         /\ call'[c].op = "cleanup_task_context"
            => /\ call'[c].pc # "raised"
               /\ call'[c].pc = "context_close" => _pages'[call'[c].task_id] = Null
               /\ call'[c].pc = "returned"
                  => /\ _pages'[call'[c].task_id] = Null
                     /\ _contexts'[call'[c].task_id] = Null
         /\ \A ok \in BOOLEAN :
              PageClosed(c, ok)
              => /\ contexts' = contexts
                 /\ ok => ~pages'[call[c].page].open
         /\ ContextClosed(c, TRUE) => ~contexts'[call[c].context].open
         /\ \A id \in BrowserTasks :
              (cleanup_task_context(c, id) /\ _pages[id] = Null /\ _contexts[id] = Null)
              => /\ call'[c].pc = "returned"
                 /\ UNCHANGED <<_playwright, _browser, _contexts, _pages,
                                engines, contexts, pages, shutdown>>]_vars

\* cleanup_task_context("A") has returned after both closes raised: the
\* page and the context are still open and neither map holds "A".
C15_Witness ==
    \E c \in Calls :
        /\ HasReturned(c, "cleanup_task_context")
        /\ call[c].task_id = "A"
        /\ _pages["A"] = Null /\ _contexts["A"] = Null
        /\ \E p \in 1..Len(pages) :
              /\ pages[p].open /\ pages[p].task_id = "A"
              /\ contexts[pages[p].context].open

\* A step of the call in slot c, a cleanup_task_context(id).
CleanupStep(c, id) ==
    \/ cleanup_task_context(c, id)
    \/ /\ call[c].op = "cleanup_task_context" /\ call[c].task_id = id
       /\ \E ok \in BOOLEAN : PageClosed(c, ok) \/ ContextClosed(c, ok)

\* C16: no step of cleanup_task_context(T1) changes the _pages or _contexts
\* entry of another id T2 or closes T2's page or context, whatever other
\* call is in flight; and get_current_page(T2), finding both entries,
\* returns the page _pages holds for T2.
C16_CleanupLeavesOtherTasks ==
    [][\A c \in Calls, t2 \in BrowserTasks :
         /\ \A t1 \in BrowserTasks \ {t2} :
              CleanupStep(c, t1)
              => /\ _pages'[t2] = _pages[t2]
                 /\ _contexts'[t2] = _contexts[t2]
                 /\ _pages[t2] # Null => pages'[_pages[t2]] = pages[_pages[t2]]
                 /\ _contexts[t2] # Null
                    => contexts'[_contexts[t2]] = contexts[_contexts[t2]]
         /\ (get_current_page(c, t2) /\ _pages[t2] # Null /\ _contexts[t2] # Null)
            => /\ call'[c].pc = "returned"
               /\ call'[c].result = _pages[t2]]_vars

\* get_current_page("default") returns B's open page while cleanup_task_context("A")
\* is suspended at the close of A's context.
C16_Witness ==
    \E c, d \in Calls :
        /\ call[c].op = "cleanup_task_context" /\ call[c].task_id = "A"
        /\ call[c].pc = "context_close"
        /\ HasReturned(d, "get_current_page") /\ call[d].task_id = "default"
        /\ call[d].result = _pages["default"]
        /\ pages[_pages["default"]].open
        /\ contexts[_contexts["default"]].open

\* C17: before shutdown the engine is launched or connected at most once,
\* under every interleaving, and every context is made on that one engine.
C17_EngineEstablishedOnce ==
    ~shutdown => /\ Len(engines) <= 1
                 /\ \A x \in 1..Len(contexts) : contexts[x].browser = 1

\* C18: with a host that is not the local-development target, a connect
\* that fails makes the call raise, launches no engine in its place and
\* records none (engines and _browser stay as they were); an engine is only
\* ever established by connect; and a later call that finds no engine goes
\* through get_browser to the connect again.
C18_FailedConnectRaisesNoFallback ==
    [][\A c \in Calls :
         /\ ConnectFails(c)
            => /\ call'[c].pc = "raised" /\ call'[c].error = "connect"
               /\ engines' = engines
               /\ _browser' = _browser
         /\ Connected(c) => engines'[Len(engines')].how = "connect"
         /\ \A id \in BrowserTasks :
              (get_current_page(c, id) /\ _browser = Null)
              => call'[c].pc = "playwright_start"
         /\ PlaywrightStarted(c) => call'[c].pc = "connect"]_vars

\* A call has raised from its failed connect to the remote host: no engine
\* was made and none is recorded.
C18_Witness ==
    \E c \in Calls :
        /\ call[c].pc = "raised" /\ call[c].error = "connect"
        /\ _browser = Null
        /\ engines = <<>>
        /\ PLAYWRIGHT_HOST # "localhost"

\* C19: cleanup_browser swallows the error of each close (page, context and
\* engine alike): it never raises from a close, and when it has ended both
\* maps are empty and no engine is recorded.
C19_CleanupBrowserSwallowsCloseErrors ==
    \A c \in Calls :
        (call[c].op = "cleanup_browser" /\ call[c].pc \in Ended)
        => /\ call[c].error \notin {"page_close", "context_close", "browser_close"}
           /\ _pages = NoEntries /\ _contexts = NoEntries
           /\ _browser = Null

\* C20: for every domain and every interval of RATE_LIMIT_WINDOW, at most
\* RATE_LIMIT_REQUESTS calls of enforce_rate_limit record a request inside
\* the interval, after any sequence of calls: at no time have more than
\* RATE_LIMIT_REQUESTS requests of a domain been recorded less than a window
\* ago.
C20_AtMostQuotaPerWindow ==
    \A d \in Domains : Len(recent[d]) <= RATE_LIMIT_REQUESTS


\* C21: in every reachable state the number of timestamps stored for a
\* domain is at most RATE_LIMIT_REQUESTS, also when calls of
\* enforce_rate_limit for one domain overlap at their sleeps.
C21_HistoryWithinQuota ==
    \A d \in Domains : Len(_rate_limits[d]) <= RATE_LIMIT_REQUESTS


\* A step of a call of enforce_rate_limit for domain d in coroutine n.
LimiterStep(n, d) ==
    \/ enforce_rate_limit(n, d)
    \/ limited[n].domain = d /\ (QuotaSleepOver(n) \/ DelayOver(n))

\* C22: a call of enforce_rate_limit for a domain leaves the history of
\* every other domain as it was, and the first call for a domain (nothing
\* stored for it) sleeps neither for the quota nor for the delay but records
\* its request at once, whatever the other domains' histories and callers.
C22_DomainsIndependent ==
    [][\A n \in Limiters, d \in Domains :
         /\ LimiterStep(n, d)
            => \A e \in Domains \ {d} : _rate_limits'[e] = _rate_limits[e]
         /\ (enforce_rate_limit(n, d) /\ _rate_limits[d] = <<>>)
            => /\ limited'[n] = NotLimited
               /\ _rate_limits'[d] = <<clock>>]_vars

\* The first request for b.test is recorded while a.test is at its quota
\* and a call for a.test sleeps until the quota frees.
C22_Witness ==
    \E n \in Limiters :
        /\ limited[n].pc = "quota_sleep"
        /\ limited[n].domain = "a.test"
        /\ clock < limited[n].wake
        /\ Len(_rate_limits["a.test"]) >= RATE_LIMIT_REQUESTS
        /\ _rate_limits["a.test"][Len(_rate_limits["a.test"])] < clock
        /\ _rate_limits["b.test"] = <<clock>>


\* C26: a call of enforce_rate_limit that after the purge finds at least
\* RATE_LIMIT_REQUESTS unexpired timestamps records nothing on entry and
\* sleeps until the oldest of them is a full window old; the step that ends
\* its sleep comes no earlier, goes through no politeness delay, and leaves
\* the history holding this request alone.
C26_QuotaWaitThenFreshWindow ==
    [][\A n \in Limiters, d \in Domains :
         LET kept == Unexpired(_rate_limits[d], clock) IN
         /\ (enforce_rate_limit(n, d) /\ Len(kept) >= RATE_LIMIT_REQUESTS)
            => /\ limited'[n].pc = "quota_sleep"
               /\ limited'[n].wake = kept[1] + RATE_LIMIT_WINDOW
               /\ _rate_limits'[d] = kept
               /\ recent' = recent
         /\ (limited[n].pc = "quota_sleep" /\ limited[n].domain = d
               /\ limited'[n] # limited[n])
            => /\ clock >= limited[n].wake
               /\ limited'[n] = NotLimited
               /\ _rate_limits'[d] = <<clock>>
               /\ recent'[d] = Append(recent[d], clock)]_vars

\* A call has come out of its quota wait: the history holds its request
\* alone, while earlier requests are less than a window old.
C26_Witness ==
    \E d \in Domains :
        /\ _rate_limits[d] = <<clock>>
        /\ Len(recent[d]) > 1
        /\ \A n \in Limiters : limited[n] = NotLimited


\* C25: a task on which Task.cancel was called before execute_task ran for
\* it (the call has not begun, the cancel event is set) stays cancelled: no
\* step moves it to queued or running, and its executor is never entered.
C25_CancelledBeforeExecuteStays ==
    [][\A t \in TaskIds :
         (pc[t] = "idle" /\ is_cancelled(t))
         => (status'[t] = "cancelled" /\ pc'[t] # "exec")]_vars


\* The tasks whose executor execute_task has entered and that has not yet
\* returned, raised or timed out.
InFlight == {t \in TaskIds : pc[t] = "exec"}

\* C27: the executors in flight never number more than MAX_CONCURRENT_TASKS,
\* also after Task.cancel or delete_task on a running task.
C27_ExecutorsWithinLimit == Cardinality(InFlight) <= MAX_CONCURRENT_TASKS


\* C24: of two tasks the orchestrator runs at the same time, neither is
\* handed the page the other uses: the pages their tool calls resolved to
\* are different objects.
C24_TasksNeverShareAPage ==
    \A t, u \in AgentTasks :
        (t # u /\ handed[t] # Null) => handed[t] # handed[u]


\* C28: create_context never replaces an entry of the context map that holds
\* an open context: when `_contexts[task_id] = context` overwrites an entry,
\* the context it held has been closed, so that every open context that was
\* stored stays within reach of the cleanups.
C28_NoOpenContextReplaced ==
    [][\A c \in Calls :
         (AddInitScript(c) /\ _contexts[Key(call[c].task_id)] # Null)
         => ~contexts[_contexts[Key(call[c].task_id)]].open]_vars


\* C29: cleanup_task_context never raises, also when it overlaps
\* cleanup_browser or another cleanup_task_context for the same id at the
\* awaits of its closes (only these remove entries, so only they can make
\* its del fail).
C29_CleanupNeverRaises ==
    \A c \in Calls : call[c].op = "cleanup_task_context" => call[c].pc # "raised"


\* The handler leaves the fallback loop.
PollingEnds == stream.pc \in Polling /\ stream'.pc \notin Polling

\* It leaves on a terminal status it has observed, having sent the error
\* event for a failed task and the complete event otherwise.
ObservedTerminal ==
    /\ stream'.exit = "final"
    /\ status[stream.task_id] \in Terminal
    /\ stream'.event = IF status[stream.task_id] = "failed" THEN "error" ELSE "complete"

\* It leaves because get_task found no task.
TaskGone == stream'.exit = "gone" /\ stream.task_id \notin tasks

\* It leaves because the client has disconnected.
ClientGone == stream'.exit = "disconnected"

\* A handler polling for a task that is terminal from some time on ends.
TerminatesOnceTerminal ==
    \A t \in TaskIds :
        <>[](status[t] \in Terminal)
        => <>[](~(stream.pc \in Polling /\ stream.task_id = t))

C30_RelayKeepsTerminalStatus ==
    [][\A type \in EventTypes :
         (RelayEvent(type) /\ status[stream.task_id] \in Terminal)
         => status'[stream.task_id] = status[stream.task_id]]_vars

====
